---- MODULE Spec2Model ----
(***************************************************************************)
(* The resource-change tracking pipeline of ThirdPartyAnalyticsController: *)
(* informer handlers turn add/update/delete notifications into             *)
(* *analyticsEvent items, enqueue them on a workqueue, and workers dequeue *)
(* them and send them to the analytics tracker.                            *)
(***************************************************************************)
EXTENDS Integers, Sequences, FiniteSets, TLC

\* ------------------------------------------------------------------ bounds
\* Number of newEvent allocations explored (the program has no such limit).
MaxEvents == 3

\* ------------------------------------------------------------------ inputs
\* Two of the ten keys of the watches table.
Kinds == {"pod", "service"}
\* The action strings the three handlers pass to enqueue.
ActionNames == {"add", "update", "delete"}
\* Namespaces of the notified objects.
Namespaces == {"ns1"}
\* The worker goroutines started by Run(stopCh, workers), workers = 2.
Workers == {"w1", "w2"}
\* What the outbound http.Get of TrackEvent can end in.
Outcomes == {"success", "non_success", "transport_error", "body_read_error"}

\* The nil pointer / nil interface.
Nil == 0

\* --------------------------------------------------------- notified objects
\* An API object as the informer hands it to a handler: either it exposes
\* object metadata (and so a namespace) or meta.Accessor fails on it.
ApiObjects ==
    {[type |-> "object", hasMeta |-> TRUE, namespace |-> n] : n \in Namespaces}
    \cup {[type |-> "object", hasMeta |-> FALSE, namespace |-> ""]}

\* The objects of the informer's store: the old object of an update.
CachedObjects == {o \in ApiObjects : o.hasMeta}

\* cache.DeletedFinalStateUnknown wrapping the last known object.
Tombstones == {[type |-> "DeletedFinalStateUnknown", Obj |-> o] : o \in ApiObjects}

\* Payloads of a delete notification.
DeletePayloads == ApiObjects \cup Tombstones

\* meta.Accessor(obj): (meta, nil) for an object with metadata, (nil, err)
\* otherwise.  The wrapper type itself carries no metadata.
Accessor(o) ==
    IF o.type = "object" /\ o.hasMeta
    THEN [err |-> FALSE, meta |-> [namespace |-> o.namespace]]
    ELSE [err |-> TRUE, meta |-> Nil]

\* A delete handler that hands the payload on as it came.
Unwrap_keepsWrapper(o) == o

\* obj.(cache.DeletedFinalStateUnknown): if ok { obj = unk.Obj }
Unwrap(o) == IF o.type = "DeletedFinalStateUnknown" THEN o.Obj ELSE o

\* ------------------------------------------------------------------ watches
\* The watches table of the constructor: per key, the object type handed to
\* NewInformer and the client calls its listFunc and watchFunc make.  It is
\* a local of the constructor, read by the loop over it and by nothing
\* else.
watches ==
    [pod |->
        [objType   |-> "Pod",
         listFunc  |-> [client |-> "kubeClient", resource |-> "Pods", op |-> "List"],
         watchFunc |-> [client |-> "kubeClient", resource |-> "Pods", op |-> "Watch"]],
     replication_controller |->
        [objType   |-> "ReplicationController",
         listFunc  |-> [client |-> "kubeClient", resource |-> "ReplicationControllers", op |-> "List"],
         watchFunc |-> [client |-> "kubeClient", resource |-> "ReplicationControllers", op |-> "Watch"]],
     pvclaim |->
        [objType   |-> "PersistentVolumeClaim",
         listFunc  |-> [client |-> "kubeClient", resource |-> "PersistentVolumeClaims", op |-> "List"],
         watchFunc |-> [client |-> "kubeClient", resource |-> "PersistentVolumeClaims", op |-> "Watch"]],
     secret |->
        [objType   |-> "Secret",
         listFunc  |-> [client |-> "kubeClient", resource |-> "Secrets", op |-> "List"],
         watchFunc |-> [client |-> "kubeClient", resource |-> "Secrets", op |-> "Watch"]],
     service |->
        [objType   |-> "Service",
         listFunc  |-> [client |-> "kubeClient", resource |-> "Services", op |-> "List"],
         watchFunc |-> [client |-> "kubeClient", resource |-> "Services", op |-> "Watch"]],
     namespace |->
        [objType   |-> "Service",
         listFunc  |-> [client |-> "kubeClient", resource |-> "Namespaces", op |-> "List"],
         watchFunc |-> [client |-> "kubeClient", resource |-> "Namespaces", op |-> "Watch"]],
     deployment |->
        [objType   |-> "DeploymentConfig",
         listFunc  |-> [client |-> "osClient", resource |-> "DeploymentConfigs", op |-> "List"],
         watchFunc |-> [client |-> "osClient", resource |-> "DeploymentConfigs", op |-> "Watch"]],
     route |->
        [objType   |-> "Route",
         listFunc  |-> [client |-> "osClient", resource |-> "Routes", op |-> "List"],
         watchFunc |-> [client |-> "osClient", resource |-> "Routes", op |-> "Watch"]],
     build |->
        [objType   |-> "Build",
         listFunc  |-> [client |-> "osClient", resource |-> "Builds", op |-> "List"],
         watchFunc |-> [client |-> "osClient", resource |-> "Builds", op |-> "Watch"]],
     template |->
        [objType   |-> "Template",
         listFunc  |-> [client |-> "osClient", resource |-> "Templates", op |-> "List"],
         watchFunc |-> [client |-> "osClient", resource |-> "Templates", op |-> "Watch"]]]

\* ------------------------------------------------------------------- state
\* name is the variable of `for name, watch := range watches`.  The three
\* handler closures of every informer capture that one variable, not its
\* value, and run only after the loop has ended, so all of them read the key
\* the loop visited last; Go leaves the order of a map range unspecified, so
\* that key is any key of the table.
VARIABLES
    name,          \* the range variable of the constructor's loop
    heap,          \* allocated analyticsEvent structs; a pointer is an index
    queue,         \* workqueue: ordered pointers waiting for a worker
    processing,    \* workqueue: pointers handed out by Get, not yet Done
    dirty,         \* workqueue: in-flight pointers re-added while in-flight
    shuttingDown,  \* workqueue: ShutDown has been called
    started,       \* Run has been called
    stopCh,        \* the stop channel passed to Run is closed
    wstate,        \* per kind: state of the informer goroutine and handler
    pc,            \* per worker: position in the worker loop
    obj,           \* per worker: the pointer its last Get returned
    quit,          \* per worker: the quit flag its last Get returned
    delivered,     \* history: pointers in the order Get returned them
    glog,          \* history: how many error lines of each kind were logged
    failed,        \* history: how many outbound calls ended in an error
    shutdownAt,    \* history: pointers allocated when ShutDown was called
    sent,          \* history: per pointer, the requests issued for it
    received,      \* history: how many notifications the informers delivered
    note,          \* the notification followed through its handler, if any
    sink,          \* the call to track followed through the tracker, if any
    recycler       \* the start of the volume recycler followed, if any

qvars == <<queue, processing, dirty>>
wvars == <<pc, obj, quit>>
hvars == <<delivered, glog, failed, shutdownAt, sent, received>>
ivars == <<note, sink, recycler>>
vars == <<name, heap, queue, processing, dirty, shuttingDown, started, stopCh,
          wstate, pc, obj, quit, delivered, glog, failed,
          shutdownAt, sent, received, note, sink, recycler>>

Pointers == 1..Len(heap)

\* ------------------------------------------------------------ analyticsEvent
\* newEvent returns a pointer to a freshly allocated struct: the struct that
\* is written to the heap.  The pointer is the next free index.
newEvent(objName, action, namespace) ==
    [objectName |-> objName, action |-> action, namespace |-> namespace]

\* The (kind, action, namespace) value a pointer points to.
Value(p) == heap[p]

Range(s) == {s[i] : i \in 1..Len(s)}

\* ---------------------------------------------------------------- workqueue
\* The workqueue package is not among the sources; its operations follow the
\* contract of the Coalescing Queue (Add, Get, Done, ShutDown over the
\* queued, in-flight and dirty-while-in-flight items).  Items are compared
\* as Go compares interface values holding pointers: by pointer identity.

\* queue.Add(item) without the check for a queue that is shutting down.
QueueAdd_ignoresShutdown(item) ==
    IF item \in processing
    THEN dirty' = dirty \cup {item} /\ UNCHANGED <<queue, processing>>
    ELSE IF item \in Range(queue) THEN UNCHANGED qvars
    ELSE queue' = Append(queue, item) /\ UNCHANGED <<processing, dirty>>

\* queue.Add(item)
QueueAdd(item) ==
    IF shuttingDown THEN UNCHANGED qvars
    ELSE IF item \in processing
         THEN dirty' = dirty \cup {item} /\ UNCHANGED <<queue, processing>>
    ELSE IF item \in Range(queue) THEN UNCHANGED qvars
    ELSE queue' = Append(queue, item) /\ UNCHANGED <<processing, dirty>>

\* queue.Done(item)
QueueDone(item) ==
    /\ processing' = processing \ {item}
    /\ IF item \in dirty
       THEN queue' = Append(queue, item) /\ dirty' = dirty \ {item}
       ELSE UNCHANGED <<queue, dirty>>

\* queue.ShutDown()
ShutDown ==
    /\ started
    /\ ~shuttingDown
    /\ shuttingDown' = TRUE
    /\ shutdownAt' = Len(heap)
    /\ UNCHANGED <<name, heap, qvars, started, stopCh, wstate, wvars,
                   delivered, glog, failed, sent, received, ivars>>

\* ------------------------------------------------------------------ enqueue
\* enqueue that skips the Add when an event for the same kind and namespace
\* is already queued, whatever its action.
enqueue_skipsQueuedObject(objName, action, namespace) ==
    /\ Len(heap) < MaxEvents
    /\ heap' = Append(heap, newEvent(objName, action, namespace))
    /\ IF \E i \in 1..Len(queue) :
              /\ heap[queue[i]].objectName = objName
              /\ heap[queue[i]].namespace = namespace
       THEN UNCHANGED qvars
       ELSE QueueAdd(Len(heap) + 1)
    /\ sent' = Append(sent, <<>>)
    /\ UNCHANGED <<delivered, glog, failed, shutdownAt>>

\* c.queue.Add(newEvent(objName, action, namespace))
enqueue(objName, action, namespace) ==
    /\ Len(heap) < MaxEvents
    /\ heap' = Append(heap, newEvent(objName, action, namespace))
    /\ QueueAdd(Len(heap) + 1)
    /\ sent' = Append(sent, <<>>)
    /\ UNCHANGED <<delivered, glog, failed, shutdownAt>>

\* ----------------------------------------------------------------- handlers
\* What the three handlers share: on an accessor error they log and, having
\* no return, go on to call meta.GetNamespace() on the nil accessor, which
\* panics before enqueue is entered; otherwise they enqueue under the kind
\* held by name.  The panic leaves the handler for the informer's goroutine
\* of kind k; what the informer framework does with it is not in the
\* sources, and that watcher takes no further step here.
Handle(k, action, o) ==
    /\ started
    /\ wstate[k] = "running"
    /\ LET acc == Accessor(o) IN
       IF acc.err
       THEN /\ glog' = [glog EXCEPT !.meta = @ + 1]
            /\ wstate' = [wstate EXCEPT ![k] = "panicked"]
            /\ UNCHANGED <<heap, qvars, delivered, failed, shutdownAt, sent>>
       ELSE /\ enqueue(name, action, acc.meta.namespace)
            /\ UNCHANGED wstate
    /\ UNCHANGED <<name, shuttingDown, started, stopCh, wvars, ivars>>

AddFunc(k, o) == Handle(k, "add", o)

UpdateFunc(k, oldObj, newObj) == Handle(k, "update", newObj)

DeleteFunc(k, o) == Handle(k, "delete", Unwrap(o))

\* ---------------------------------------------------------------------- Run
\* Run that starts a single worker whatever the workers argument.
Run_startsOneWorker ==
    /\ ~started
    /\ started' = TRUE
    /\ wstate' = [k \in Kinds |-> "running"]
    /\ pc' = [w \in Workers |-> IF w = "w1" THEN "get" ELSE "idle"]
    /\ UNCHANGED <<name, heap, qvars, shuttingDown, stopCh, obj, quit, hvars,
                   ivars>>

\* Run(stopCh, workers): a go statement per entry of c.controllers and a go
\* statement per worker, then the return; no go statement waits for the
\* goroutine it starts.
Run ==
    /\ ~started
    /\ started' = TRUE
    /\ wstate' = [k \in Kinds |-> "running"]
    /\ pc' = [w \in Workers |-> "get"]
    /\ UNCHANGED <<name, heap, qvars, shuttingDown, stopCh, obj, quit, hvars,
                   ivars>>

\* A stop channel whose closing tears down the iteration of every worker
\* that is waiting for its outbound call.
Stop_interruptsCalls ==
    /\ started
    /\ ~stopCh
    /\ stopCh' = TRUE
    /\ pc' = [w \in Workers |-> "get"]
    /\ obj' = [w \in Workers |-> Nil]
    /\ UNCHANGED <<name, heap, qvars, shuttingDown, started, wstate, quit, hvars,
                   ivars>>

\* The caller closes the stop channel.  The channel is read by the informers
\* and by wait.Until between two runs of c.worker, which never returns; the
\* worker's http.Get takes no channel or context.
Stop ==
    /\ started
    /\ ~stopCh
    /\ stopCh' = TRUE
    /\ UNCHANGED <<name, heap, qvars, shuttingDown, started, wstate, wvars, hvars,
                   ivars>>

\* framework.Controller.Run(stopCh) returns once the channel is closed.
WatcherStop(k) ==
    /\ stopCh
    /\ wstate[k] = "running"
    /\ wstate' = [wstate EXCEPT ![k] = "stopped"]
    /\ UNCHANGED <<name, heap, qvars, shuttingDown, started, stopCh, wvars, hvars,
                   ivars>>

\* -------------------------------------------------------------------- track
\* Go strings whose bytes matter are sequences of one-letter strings.
UpperCase == <<"A", "B", "C", "D", "E", "F", "G", "H", "I", "J", "K", "L", "M",
               "N", "O", "P", "Q", "R", "S", "T", "U", "V", "W", "X", "Y", "Z">>

LowerCase == <<"a", "b", "c", "d", "e", "f", "g", "h", "i", "j", "k", "l", "m",
               "n", "o", "p", "q", "r", "s", "t", "u", "v", "w", "x", "y", "z">>

\* The bytes of the kind and action strings the handlers pass to enqueue.
Chars ==
    [s \in Kinds \cup ActionNames |->
        CASE s = "pod"     -> <<"p", "o", "d">>
          [] s = "service" -> <<"s", "e", "r", "v", "i", "c", "e">>
          [] s = "add"     -> <<"a", "d", "d">>
          [] s = "update"  -> <<"u", "p", "d", "a", "t", "e">>
          [] s = "delete"  -> <<"d", "e", "l", "e", "t", "e">>]

\* unicode.ToLower on the upper-case letters.
LowerOf ==
    [c \in {UpperCase[j] : j \in 1..Len(UpperCase)} |->
        LowerCase[CHOOSE j \in 1..Len(UpperCase) : UpperCase[j] = c]]

\* strings.ToLower: every upper-case letter replaced by its lower-case one.
ToLower(s) ==
    [i \in 1..Len(s) |-> IF s[i] \in DOMAIN LowerOf THEN LowerOf[s[i]] ELSE s[i]]

\* fmt.Sprintf("%s_%s", a, b)
Sprintf_s_s(a, b) == a \o <<"_">> \o b

\* The params map of track, with the kind under cv_email.
TrackParams_emailIsKind(objName, action, namespace) ==
    [host                 |-> "dev.openshift.redhat.com",
     event                |-> Sprintf_s_s(ToLower(objName), ToLower(action)),
     cv_email             |-> objName,
     cv_project_namespace |-> namespace]

\* The params map built by track.
TrackParams(objName, action, namespace) ==
    [host                 |-> "dev.openshift.redhat.com",
     event                |-> Sprintf_s_s(ToLower(objName), ToLower(action)),
     cv_email             |-> namespace,
     cv_project_namespace |-> namespace]

\* url.Values built from the map: the key/value pairs of the query string.
UrlValues(params) == {<<key, params[key]>> : key \in DOMAIN params}

\* realAnalyticsTracker.TrackEvent with the outbound call ending in outcome:
\* the requests it issued, and whether it returns an error: an error for a
\* failed http.Get or a failed read of the body, nil otherwise.  The status
\* of the response is not looked at.
TrackEvent(params, method, endpoint, outcome) ==
    IF method = "GET"
    THEN [requests |-> <<[endpoint |-> endpoint, query |-> UrlValues(params)]>>,
          err      |-> outcome \in {"transport_error", "body_read_error"}]
    ELSE [requests |-> <<>>, err |-> FALSE]

\* track: the requests issued and whether track returns an error.
track(objName, action, namespace, outcome) ==
    TrackEvent(TrackParams(objName, action, namespace), "GET",
               "http://www.woopra.com/track/ce?%s", outcome)

\* c.track(e.objectName, e.action, e.namespace) for the events the handlers
\* can enqueue, as a function of the event's fields and of how the call
\* ends.
trackOf ==
    [k \in Kinds |-> [a \in ActionNames |-> [n \in Namespaces |->
        [outcome \in Outcomes |-> track(Chars[k], Chars[a], n, outcome)]]]]

\* ------------------------------------------------------------------- worker
\* A worker whose Get hands out the item added last.
WorkerGet_takesLast(w) ==
    /\ pc[w] = "get"
    /\ queue # <<>> \/ shuttingDown
    /\ IF queue = <<>>
       THEN /\ quit' = [quit EXCEPT ![w] = TRUE]
            /\ obj' = [obj EXCEPT ![w] = Nil]
            /\ UNCHANGED <<qvars, pc, delivered>>
       ELSE /\ queue' = SubSeq(queue, 1, Len(queue) - 1)
            /\ processing' = processing \cup {queue[Len(queue)]}
            /\ quit' = [quit EXCEPT ![w] = FALSE]
            /\ obj' = [obj EXCEPT ![w] = queue[Len(queue)]]
            /\ pc' = [pc EXCEPT ![w] = "track"]
            /\ delivered' = Append(delivered, queue[Len(queue)])
            /\ UNCHANGED dirty
    /\ UNCHANGED <<name, heap, shuttingDown, started, stopCh, wstate,
                   glog, failed, shutdownAt, sent, received, ivars>>

\* obj, quit := c.queue.Get(); if quit { return }.  The return leaves the
\* inner func only: the enclosing for {} has no exit, so the worker is back
\* at Get and has no position after the loop.
WorkerGet(w) ==
    /\ pc[w] = "get"
    /\ queue # <<>> \/ shuttingDown
    /\ IF queue = <<>>
       THEN /\ quit' = [quit EXCEPT ![w] = TRUE]
            /\ obj' = [obj EXCEPT ![w] = Nil]
            /\ UNCHANGED <<qvars, pc, delivered>>
       ELSE /\ queue' = Tail(queue)
            /\ processing' = processing \cup {Head(queue)}
            /\ quit' = [quit EXCEPT ![w] = FALSE]
            /\ obj' = [obj EXCEPT ![w] = Head(queue)]
            /\ pc' = [pc EXCEPT ![w] = "track"]
            /\ delivered' = Append(delivered, Head(queue))
            /\ UNCHANGED dirty
    /\ UNCHANGED <<name, heap, shuttingDown, started, stopCh, wstate,
                   glog, failed, shutdownAt, sent, received, ivars>>

\* A worker that calls track a second time when the first call fails.
WorkerTrack_callsTwice(w) ==
    /\ pc[w] = "track"
    /\ \E outcome \in Outcomes :
         LET e == Value(obj[w])
             r == trackOf[e.objectName][e.action][e.namespace][outcome]
             err == r.err
         IN
         /\ failed' = IF outcome \in {"transport_error", "body_read_error"}
                       THEN failed + 1 ELSE failed
         /\ sent' = [sent EXCEPT ![obj[w]] =
                        IF err THEN @ \o r.requests \o r.requests
                        ELSE @ \o r.requests]
         /\ glog' = IF err THEN [glog EXCEPT !.track = @ + 1] ELSE glog
    /\ QueueDone(obj[w])
    /\ obj' = [obj EXCEPT ![w] = Nil]
    /\ pc' = [pc EXCEPT ![w] = "get"]
    /\ UNCHANGED <<name, heap, shuttingDown, started, stopCh, wstate, quit,
                   delivered, shutdownAt, received, ivars>>

\* A worker whose iteration ends without the deferred queue.Done.
WorkerTrack_skipsDone(w) ==
    /\ pc[w] = "track"
    /\ \E outcome \in Outcomes :
         LET e == Value(obj[w])
             r == trackOf[e.objectName][e.action][e.namespace][outcome]
             err == r.err
         IN
         /\ failed' = IF outcome \in {"transport_error", "body_read_error"}
                       THEN failed + 1 ELSE failed
         /\ sent' = [sent EXCEPT ![obj[w]] = @ \o r.requests]
         /\ glog' = IF err THEN [glog EXCEPT !.track = @ + 1] ELSE glog
    /\ obj' = [obj EXCEPT ![w] = Nil]
    /\ pc' = [pc EXCEPT ![w] = "get"]
    /\ UNCHANGED <<name, heap, qvars, shuttingDown, started, stopCh, wstate, quit,
                   delivered, shutdownAt, received, ivars>>

\* A worker that marks the event Done only when track returned no error.
WorkerTrack_doneOnSuccessOnly(w) ==
    /\ pc[w] = "track"
    /\ \E outcome \in Outcomes :
         LET e == Value(obj[w])
             r == trackOf[e.objectName][e.action][e.namespace][outcome]
             err == r.err
         IN
         /\ failed' = IF outcome \in {"transport_error", "body_read_error"}
                       THEN failed + 1 ELSE failed
         /\ sent' = [sent EXCEPT ![obj[w]] = @ \o r.requests]
         /\ glog' = IF err THEN [glog EXCEPT !.track = @ + 1] ELSE glog
         /\ IF err THEN UNCHANGED qvars ELSE QueueDone(obj[w])
    /\ obj' = [obj EXCEPT ![w] = Nil]
    /\ pc' = [pc EXCEPT ![w] = "get"]
    /\ UNCHANGED <<name, heap, shuttingDown, started, stopCh, wstate, quit,
                   delivered, shutdownAt, received, ivars>>

\* A worker that adds the event to the queue again when track fails.
WorkerTrack_retries(w) ==
    /\ pc[w] = "track"
    /\ \E outcome \in Outcomes :
         LET e == Value(obj[w])
             r == trackOf[e.objectName][e.action][e.namespace][outcome]
             err == r.err
         IN
         /\ failed' = IF outcome \in {"transport_error", "body_read_error"}
                       THEN failed + 1 ELSE failed
         /\ sent' = [sent EXCEPT ![obj[w]] = @ \o r.requests]
         /\ glog' = IF err THEN [glog EXCEPT !.track = @ + 1] ELSE glog
         /\ processing' = processing \ {obj[w]}
         /\ IF err \/ obj[w] \in dirty
            THEN queue' = Append(queue, obj[w]) /\ dirty' = dirty \ {obj[w]}
            ELSE UNCHANGED <<queue, dirty>>
    /\ obj' = [obj EXCEPT ![w] = Nil]
    /\ pc' = [pc EXCEPT ![w] = "get"]
    /\ UNCHANGED <<name, heap, shuttingDown, started, stopCh, wstate, quit,
                   delivered, shutdownAt, received, ivars>>

\* The rest of the iteration, from the return of the outbound call on:
\* err := c.track(...); if err != nil { glog.Errorf(...) }; then the deferred
\* c.queue.Done(obj); obj goes out of scope and the for loop starts again.
WorkerTrack(w) ==
    /\ pc[w] = "track"
    /\ \E outcome \in Outcomes :
         LET e == Value(obj[w])
             r == trackOf[e.objectName][e.action][e.namespace][outcome]
             err == r.err
         IN
         /\ failed' = IF outcome \in {"transport_error", "body_read_error"}
                       THEN failed + 1 ELSE failed
         /\ sent' = [sent EXCEPT ![obj[w]] = @ \o r.requests]
         /\ glog' = IF err THEN [glog EXCEPT !.track = @ + 1] ELSE glog
    /\ QueueDone(obj[w])
    /\ obj' = [obj EXCEPT ![w] = Nil]
    /\ pc' = [pc EXCEPT ![w] = "get"]
    /\ UNCHANGED <<name, heap, shuttingDown, started, stopCh, wstate, quit,
                   delivered, shutdownAt, received, ivars>>

\* ------------------------------------------------------------ specification
\* The controller as NewThirdPartyAnalyticsController returns it.
Constructed ==
    /\ name \in Kinds
    /\ heap = <<>>
    /\ queue = <<>>
    /\ processing = {}
    /\ dirty = {}
    /\ shuttingDown = FALSE
    /\ started = FALSE
    /\ stopCh = FALSE
    /\ wstate = [k \in Kinds |-> "idle"]
    /\ pc = [w \in Workers |-> "idle"]
    /\ obj = [w \in Workers |-> Nil]
    /\ quit = [w \in Workers |-> FALSE]
    /\ delivered = <<>>
    /\ glog = [meta |-> 0, track |-> 0]
    /\ failed = 0
    /\ shutdownAt = 0
    /\ sent = <<>>
    /\ received = 0

Init ==
    /\ Constructed
    /\ note = Nil
    /\ sink = Nil
    /\ recycler = Nil

\* An informer that, besides the notifications of its watch, calls
\* UpdateFunc for a stored object when a resync timer fires.
Informer_resyncs(k) ==
    \/ /\ received' = received + 1
       /\ \/ \E o \in ApiObjects : AddFunc(k, o)
          \/ \E oldObj \in CachedObjects, newObj \in ApiObjects : UpdateFunc(k, oldObj, newObj)
          \/ \E o \in DeletePayloads : DeleteFunc(k, o)
    \/ /\ received' = received
       /\ \E o \in CachedObjects : UpdateFunc(k, o, o)

\* The informer of kind k, made by framework.NewInformer with resync period
\* 0: it receives a notification of its watch and calls the handler
\* registered for it; it has no resync timer.
Informer(k) ==
    /\ received' = received + 1
    /\ \/ \E o \in ApiObjects : AddFunc(k, o)
       \/ \E oldObj \in CachedObjects, newObj \in ApiObjects : UpdateFunc(k, oldObj, newObj)
       \/ \E o \in DeletePayloads : DeleteFunc(k, o)

Watcher(k) ==
    \/ Informer(k)
    \/ WatcherStop(k)

Worker(w) == WorkerGet(w) \/ WorkerTrack(w)

\* The program: nothing in it calls queue.ShutDown.
Next ==
    \/ Run
    \/ Stop
    \/ \E k \in Kinds : Watcher(k)
    \/ \E w \in Workers : Worker(w)

Spec == Init /\ [][Next]_vars

\* The program under a scheduler that keeps running at least one worker
\* goroutine, whose outbound calls return.
FairSpec == Spec /\ WF_vars(Worker("w1"))

\* The program in a burst of notifications: every notification arrives
\* before the first Get returns.
NextBurst == Next /\ (heap' # heap => delivered = <<>>)

BurstSpec == Init /\ [][NextBurst]_vars

\* The program with a caller of queue.ShutDown added.
NextShutdown == Next \/ ShutDown

ShutdownSpec == Init /\ [][NextShutdown]_vars

\* The controller with one registered kind, the one name then holds, and
\* started with workers = 1 as RunThirdPartyAnalyticsController starts it,
\* the worker goroutine being kept running.
NextSingle ==
    \/ Run
    \/ Stop
    \/ Watcher(name)
    \/ Worker("w1")

SingleSpec == Init /\ [][NextSingle]_vars /\ WF_vars(Worker("w1"))

\* The controller as RunThirdPartyAnalyticsController starts it:
\* ctrl.Run(utilwait.NeverStop, 1).  Nothing closes the stop channel, so no
\* informer returns from Run, and one worker goroutine is started.
NextDeployed ==
    \/ Run
    \/ \E k \in Kinds : Informer(k)
    \/ Worker("w1")

DeployedSpec == Init /\ [][NextDeployed]_vars

\* ------------------------------------------------------- one watcher followed
\* Namespaces of the objects of the followed notification.
NotedNamespaces == {"ns1", "ns2"}

NotedObjects ==
    {[type |-> "object", hasMeta |-> TRUE, namespace |-> n] : n \in NotedNamespaces}
    \cup {[type |-> "object", hasMeta |-> FALSE, namespace |-> ""]}

NotedTombstones ==
    {[type |-> "DeletedFinalStateUnknown", Obj |-> o] : o \in NotedObjects}

\* A notification of the informer of one kind: which of the three handlers
\* it goes to and the objects handed over.
Notes ==
    [kind : Kinds, type : {"add"}, obj : NotedObjects]
    \cup [kind : Kinds, type : {"update"},
          old : {o \in NotedObjects : o.hasMeta}, obj : NotedObjects]
    \cup [kind : Kinds, type : {"delete"}, obj : NotedObjects \cup NotedTombstones]

HandlerInit ==
    /\ Constructed
    /\ note \in Notes
    /\ sink = Nil
    /\ recycler = Nil

\* The informer of note.kind calls the handler registered for note.type; a
\* watch can bring the same notification again.
Notify ==
    /\ received' = received + 1
    /\ \/ note.type = "add" /\ AddFunc(note.kind, note.obj)
       \/ note.type = "update" /\ UpdateFunc(note.kind, note.old, note.obj)
       \/ note.type = "delete" /\ DeleteFunc(note.kind, note.obj)

NextHandler == Run \/ Notify

HandlerSpec == HandlerInit /\ [][NextHandler]_vars

\* ---------------------------------------------------------- the tracker alone
\* Kind and action strings as track can be handed them, in the spellings a
\* caller may use.
TrackedNames == {<<"p", "o", "d">>, <<"P", "o", "d">>, <<"S", "E", "R", "V", "I", "C", "E">>}

TrackedActions == {<<"a", "d", "d">>, <<"U", "p", "d", "a", "t", "e">>, <<"D", "E", "L", "E", "T", "E">>}

\* Namespaces handed to track: a project's, and that of a cluster-scoped
\* object.
TrackedNamespaces == {"ns1", ""}

\* One call of track about to be made, and how its http.Get will end.
SinkInit ==
    /\ Constructed
    /\ note = Nil
    /\ recycler = Nil
    /\ sink \in [objName : TrackedNames, action : TrackedActions,
                 namespace : TrackedNamespaces, outcome : Outcomes,
                 state : {"calling"}, requests : {<<>>}, err : {FALSE}]

\* c.track(objName, action, namespace) runs and returns.
TrackCall ==
    /\ sink.state = "calling"
    /\ LET r == track(sink.objName, sink.action, sink.namespace, sink.outcome) IN
       sink' = [sink EXCEPT !.state = "returned", !.requests = r.requests,
                            !.err = r.err]
    /\ UNCHANGED <<name, heap, qvars, shuttingDown, started, stopCh, wstate,
                   wvars, hvars, note, recycler>>

SinkSpec == SinkInit /\ [][TrackCall]_vars

\* ------------------------------------------------- the recycler pod template
\* The longest volume list of a pod read from a file.
MaxVolumes == 2

PodNames == {"scrubber-a", "scrubber-b"}

\* The pod RunPersistentVolumeClaimRecycler prepares from
\* volume.NewPersistentVolumeRecyclerPodTemplate() in the namespace it is
\* given.
defaultScrubPod ==
    [Namespace |-> "ns1", Name |-> "pv-scrubber", Volumes |-> <<"vol">>]

\* Pods a template file can decode to.
RecyclerPods ==
    {[Namespace |-> "ns1", Name |-> n, Volumes |-> [i \in 1..v |-> "vol"]] :
        n \in PodNames, v \in 0..MaxVolumes}

\* What io.LoadPodFromFile(path) returns: an error, or the decoded pod.
PodFiles ==
    {[err |-> TRUE, pod |-> Nil]}
    \cup {[err |-> FALSE, pod |-> p] : p \in RecyclerPods}

\* A template path flag with what is behind it: not set, or a path whose
\* file loads as one of PodFiles.
PathFlags ==
    {[path |-> "", file |-> Nil]}
    \cup {[path |-> "/etc/recycler.json", file |-> f] : f \in PodFiles}

\* An attempt that sets the loaded pod on the config before it counts the
\* volumes.
attemptToLoadRecycler_setsBeforeCheck(file, config) ==
    IF file.err
    THEN [config |-> config, err |-> "LoadPodFromFile"]
    ELSE IF Len(file.pod.Volumes) # 1
         THEN [config |-> [config EXCEPT !.RecyclerPodTemplate = file.pod],
               err |-> "expected exactly 1 volume"]
         ELSE [config |-> [config EXCEPT !.RecyclerPodTemplate = file.pod],
               err |-> "nil"]

\* attemptToLoadRecycler(path, config), file being what LoadPodFromFile
\* returns for path: the config as the call leaves it and the error it
\* returns.
attemptToLoadRecycler(file, config) ==
    IF file.err
    THEN [config |-> config, err |-> "LoadPodFromFile"]
    ELSE IF Len(file.pod.Volumes) # 1
         THEN [config |-> config, err |-> "expected exactly 1 volume"]
         ELSE [config |-> [config EXCEPT !.RecyclerPodTemplate = file.pod],
               err |-> "nil"]

\* RunPersistentVolumeClaimRecycler is about to build the two configs; the
\* flags are as the command line set them.
RecyclerInit ==
    /\ Constructed
    /\ note = Nil
    /\ sink = Nil
    /\ recycler \in [flags : [hostPath : PathFlags, nfs : PathFlags],
                     config : {[hostPath |-> [RecyclerPodTemplate |-> Nil],
                                nfs |-> [RecyclerPodTemplate |-> Nil]]},
                     pc : {"hostPathConfig"},
                     err : {"nil"}]

\* hostPathConfig := volume.VolumeConfig{... RecyclerPodTemplate: defaultScrubPod}
\* and, further down, the same for nfsConfig.
NewVolumeConfig(plugin) ==
    /\ recycler.pc = plugin \o "Config"
    /\ recycler' = [recycler EXCEPT
                       !.config[plugin] = [RecyclerPodTemplate |-> defaultScrubPod],
                       !.pc = plugin]
    /\ UNCHANGED <<name, heap, qvars, shuttingDown, started, stopCh, wstate,
                   wvars, hvars, note, sink>>

\* if len(path) != 0 { if err := attemptToLoadRecycler(path, &config);
\* err != nil { glog.Fatalf(...) } }
LoadRecycler(plugin, next) ==
    /\ recycler.pc = plugin
    /\ IF recycler.flags[plugin].path = ""
       THEN recycler' = [recycler EXCEPT !.pc = next]
       ELSE LET r == attemptToLoadRecycler(recycler.flags[plugin].file,
                                           recycler.config[plugin])
            IN recycler' = [recycler EXCEPT
                               !.config[plugin] = r.config,
                               !.err = r.err,
                               !.pc = IF r.err # "nil" THEN "fatal" ELSE next]
    /\ UNCHANGED <<name, heap, qvars, shuttingDown, started, stopCh, wstate,
                   wvars, hvars, note, sink>>

\* The start of the recycler up to the probing of the plugins.
RunPersistentVolumeClaimRecycler ==
    \/ NewVolumeConfig("hostPath")
    \/ LoadRecycler("hostPath", "nfsConfig")
    \/ NewVolumeConfig("nfs")
    \/ LoadRecycler("nfs", "plugins")

RecyclerSpec == RecyclerInit /\ [][RunPersistentVolumeClaimRecycler]_vars

TypeOK ==
    /\ name \in Kinds
    /\ queue \in Seq(Pointers)
    /\ processing \subseteq Pointers
    /\ dirty \subseteq Pointers
    /\ \A w \in Workers : obj[w] \in Pointers \cup {Nil}
    /\ \A w \in Workers : pc[w] \in {"idle", "get", "track"}
    /\ \A k \in Kinds : wstate[k] \in {"idle", "running", "panicked", "stopped"}

\* ------------------------------------------------------------------- claims
\* Every (kind, action, namespace) value.
EventValues == [objectName : Kinds, action : ActionNames, namespace : Namespaces]

\* How many entries of the sequence of pointers s point to the value v.
CountValue(s, v) == Cardinality({i \in 1..Len(s) : Value(s[i]) = v})

InFlightValue(v) == \E p \in processing : Value(p) = v

QueuedValue(v) == \E i \in 1..Len(queue) : Value(queue[i]) = v

\* C1: no two workers hold, between Get and Done, events with the same
\* kind, action and namespace.
C1_InFlightExclusivity ==
    \A w1, w2 \in Workers :
        (w1 # w2 /\ pc[w1] = "track" /\ pc[w2] = "track")
            => Value(obj[w1]) # Value(obj[w2])

\* C2: as long as no Get has returned, every value that was enqueued is in
\* the queue exactly once: identical values once, differing values each.
C2_DedupWhileQueued ==
    delivered = <<>> => \A v \in Range(heap) : CountValue(queue, v) = 1

\* C3: when all Adds were issued before any worker consumed, Get returns
\* no value more than twice.
C3_CoalescingBound ==
    \A v \in Range(heap) : CountValue(delivered, v) <= 2

\* C4: a value that is in-flight and not queued does not enter the queue
\* while it stays in-flight, however many Adds of it arrive.
C4_SingleRedelivery ==
    [][\A v \in EventValues :
          (InFlightValue(v) /\ ~QueuedValue(v) /\ InFlightValue(v)')
              => ~QueuedValue(v)']_vars

\* C5: with workers that keep running, every value enqueued at least once is
\* eventually returned by some Get.
\* (Every enqueued value carries the kind held by name, so the values to
\* follow are those of that kind.)
C5_NoLoss ==
    /\ [](\A v \in Range(heap) : v.objectName = name)
    /\ \A a \in ActionNames, n \in Namespaces :
          (newEvent(name, a, n) \in Range(heap))
              ~> (CountValue(delivered, newEvent(name, a, n)) >= 1)

C5_Witness ==
    \E i, j \in 1..Len(delivered) : Value(delivered[i]) # Value(delivered[j])

\* C6: once the stop channel is closed, every watcher has stopped and
\* nothing more can happen, every worker has left its loop.
C6_Cancellation ==
    (stopCh /\ (\A k \in Kinds : wstate[k] = "stopped") /\ ~ENABLED Next)
        => \A w \in Workers : pc[w] = "exited"

\* The pointers passed to Add after ShutDown.
AfterShutdown == IF shuttingDown THEN (shutdownAt + 1)..Len(heap) ELSE {}

\* A step in which worker w's Get returns.
GetReturned(w) ==
    /\ pc[w] = "get"
    /\ pc'[w] = "track" \/ quit'[w] # quit[w]

\* C7: after ShutDown, Get still hands out the queued items in order, Get on
\* the drained queue does not block and returns quit, and no pointer passed
\* to Add after ShutDown is queued, in-flight or returned by Get.
C7_ShutdownDrains ==
    /\ [](\A p \in AfterShutdown :
             /\ p \notin Range(queue)
             /\ p \notin processing
             /\ p \notin Range(delivered))
    /\ [](\A w \in Workers :
             (shuttingDown /\ pc[w] = "get") => ENABLED WorkerGet(w))
    /\ [][\A w \in Workers :
             (shuttingDown /\ GetReturned(w))
                 => IF queue # <<>>
                    THEN obj'[w] = Head(queue) /\ ~quit'[w] /\ pc'[w] = "track"
                    ELSE quit'[w] /\ obj'[w] = Nil /\ pc'[w] = "get"]_vars

C7_Witness ==
    /\ shuttingDown
    /\ AfterShutdown # {}
    /\ delivered # <<>>
    /\ queue = <<>>
    /\ \E w \in Workers : quit[w]

\* C8: a notification whose object has no metadata is logged and dropped:
\* nothing is allocated or queued and the handler returns to its watcher.
C8_ObservationErrorDropped ==
    [][(glog'.meta > glog.meta)
          => (UNCHANGED <<heap, queue, processing, dirty>> /\ wstate' = wstate)]_vars

\* C9: once started, no watcher and no worker is ever brought down by a
\* failure: watchers run until stopped, workers stay in their loop.
C9_FailureContainment ==
    started =>
        /\ \A k \in Kinds : wstate[k] \in {"running", "stopped"}
        /\ \A w \in Workers : pc[w] \in {"get", "track"}

C11_SinkFailureClassification ==
    sink.state = "returned" => (sink.err <=> sink.outcome # "success")

\* The object whose namespace the followed notification is about: the new
\* object of an update, the wrapped object of a wrapped delete payload.
NotifiedObject ==
    IF note.obj.type = "DeletedFinalStateUnknown" THEN note.obj.Obj ELSE note.obj

\* C12: every event enqueued for a notification seen by the watcher of kind
\* K has kind K, the action of the notification and the namespace of the
\* notified object.
C12_EventAttribution ==
    \A p \in Pointers :
        Value(p) = [objectName |-> note.kind, action |-> note.type,
                    namespace |-> NotifiedObject.namespace]

\* C13: before Run no watcher and no worker runs; Run is never held up; the
\* step that is Run starts the watcher of every registered kind and every
\* one of the workers, and nothing else happens in it: no item is queued,
\* handed out or sent; after Run no further watcher or worker is started.
C13_RunLifecycle ==
    /\ [](~started => /\ \A k \in Kinds : wstate[k] = "idle"
                      /\ \A w \in Workers : pc[w] = "idle"
                      /\ ENABLED Run)
    /\ [][(~started /\ started')
             => /\ DOMAIN wstate' = Kinds
                /\ \A k \in Kinds : wstate'[k] = "running"
                /\ DOMAIN pc' = Workers
                /\ \A w \in Workers : pc'[w] = "get"
                /\ UNCHANGED <<heap, queue, processing, dirty, delivered, sent,
                               stopCh>>]_vars
    /\ [][started
             => /\ started'
                /\ \A k \in Kinds : wstate[k] = "idle" <=> wstate'[k] = "idle"
                /\ \A w \in Workers : pc[w] = "idle" <=> pc'[w] = "idle"]_vars

\* Run has returned while an item is still queued and a call is under way.
C13_Witness ==
    /\ started
    /\ \A k \in Kinds : wstate[k] = "running"
    /\ queue # <<>>
    /\ \E w \in Workers : pc[w] = "track"

DirtyValue(v) == \E p \in dirty : Value(p) = v

\* C14: in every reachable state no value is both queued and in-flight,
\* every value that is dirty-while-in-flight is in-flight, and no value is
\* in the queued sequence twice.
C14_ThreeSetInvariant ==
    \A v \in EventValues :
        /\ ~(QueuedValue(v) /\ InFlightValue(v))
        /\ DirtyValue(v) => InFlightValue(v)
        /\ CountValue(queue, v) <= 1

\* The query a request for the event value v has to carry.
DerivedQuery(v) ==
    UrlValues(TrackParams(Chars[v.objectName], Chars[v.action], v.namespace))

\* The one event was handed out once, is marked Done and nothing is left.
SingleDone ==
    /\ delivered = <<1>>
    /\ queue = <<>>
    /\ processing = {}
    /\ dirty = {}

\* C15: one kind, one worker.  While the add seen first is the only
\* notification, Get returns nothing but its event, and once that event is
\* neither queued nor in-flight it was returned once, one request derived
\* from it was sent, and the three sets are empty; with the worker kept
\* running that state is reached unless another notification arrives.
C15_EndToEndSingleEvent ==
    /\ [](Len(heap) = 1 => /\ Value(1).objectName = name
                           /\ Range(delivered) \subseteq {1}
                           /\ Len(sent[1]) <= 1)
    /\ []((Len(heap) = 1 /\ 1 \notin Range(queue) /\ 1 \notin processing)
            => /\ SingleDone
               /\ Len(sent[1]) = 1
               /\ sent[1][1].query = DerivedQuery(Value(1)))
    /\ (Len(heap) = 1 /\ Value(1).action = "add")
           ~> (Len(heap) > 1 \/ (SingleDone /\ Len(sent[1]) = 1))

C15_Witness ==
    /\ Len(heap) = 1
    /\ Value(1) = newEvent(name, "add", "ns1")
    /\ SingleDone
    /\ Len(sent[1]) = 1
    /\ pc["w1"] = "get"

\* The position at which the value v first occurs in the sequence of
\* pointers s, 0 when it does not occur.
FirstIndex(s, v) ==
    IF \E i \in 1..Len(s) : Value(s[i]) = v
    THEN CHOOSE i \in 1..Len(s) :
             /\ Value(s[i]) = v
             /\ \A j \in 1..(i - 1) : Value(s[j]) # v
    ELSE 0

\* The pointers in the order enqueue passed them to Add.
Inserted == [p \in 1..Len(heap) |-> p]

\* C16: for distinct values A and B with A inserted before B, Get does not
\* return B unless it has returned A, and returns A first; items still
\* queued wait in the order of their insertion.
C16_Fifo ==
    /\ \A a, b \in Range(heap) :
          (a # b /\ FirstIndex(Inserted, a) < FirstIndex(Inserted, b)
                 /\ FirstIndex(delivered, b) > 0)
              => /\ FirstIndex(delivered, a) > 0
                 /\ FirstIndex(delivered, a) < FirstIndex(delivered, b)
    /\ \A i, j \in 1..Len(queue) : i < j => queue[i] < queue[j]

\* Two different values were returned and a third item is still queued.
C16_Witness ==
    /\ Len(delivered) = 2
    /\ Value(delivered[1]).action = "update"
    /\ Value(delivered[2]).action = "add"
    /\ Len(queue) = 1

\* How often Get has returned the pointer p.
Returned(p) == Cardinality({i \in 1..Len(delivered) : delivered[i] = p})

\* C17: for every pointer, one request has been sent for each of its
\* returns by Get that has reached Done and none yet for the return that is
\* still in-flight, whether the calls failed or not.
C17_AtMostOneAttempt ==
    \A p \in Pointers :
        Len(sent[p]) = Returned(p) - (IF p \in processing THEN 1 ELSE 0)

\* Every event was handed out and marked Done, and every call failed.
C17_Witness ==
    /\ Len(heap) >= 2
    /\ failed = Len(heap)
    /\ processing = {}
    /\ \A p \in Pointers : Returned(p) = 1 /\ Len(sent[p]) = 1

\* C18: closing the stop channel changes nothing of a worker or of the
\* event it holds; the worker that steps while the channel is closed and
\* its call is under way sends its request, reaches the outcome and marks
\* the event Done; and with the channel closed that step stays open to
\* every worker whose call is under way.
C18_InFlightSurvivesCancellation ==
    /\ [][(~stopCh /\ stopCh')
             => UNCHANGED <<pc, obj, quit, queue, processing, dirty, sent>>]_vars
    /\ [][\A w \in Workers :
             (stopCh /\ pc[w] = "track" /\ <<pc[w], obj[w]>>' # <<pc[w], obj[w]>>)
                 => /\ Len(sent'[obj[w]]) = Len(sent[obj[w]]) + 1
                    /\ obj[w] \notin processing'
                    /\ pc'[w] = "get"]_vars
    /\ [](\A w \in Workers :
             (stopCh /\ pc[w] = "track")
                 => /\ obj[w] \in processing
                    /\ ENABLED WorkerTrack(w))

\* The channel is closed, every watcher has stopped, and the call of a
\* worker is still under way.
C18_Witness ==
    /\ stopCh
    /\ \A k \in Kinds : wstate[k] = "stopped"
    /\ pc["w1"] = "track"
    /\ sent[obj["w1"]] = <<>>

\* C19: for a delete notification whose wrapped or unwrapped object has
\* metadata the handler does not fail, and every event it enqueues has
\* action delete and the namespace of the wrapped object when the payload
\* is the wrapper, of the payload itself otherwise.
C19_DeleteUnwrapping ==
    (note.type = "delete" /\ NotifiedObject.hasMeta)
        => /\ wstate[note.kind] # "panicked"
           /\ glog.meta = 0
           /\ \A p \in Pointers :
                 /\ Value(p).action = "delete"
                 /\ Value(p).namespace =
                        IF note.obj.type = "DeletedFinalStateUnknown"
                        THEN note.obj.Obj.namespace
                        ELSE note.obj.namespace

\* The delete of a wrapped object of namespace ns2 was enqueued twice.
C19_Witness ==
    /\ note.type = "delete"
    /\ note.obj.type = "DeletedFinalStateUnknown"
    /\ note.obj.Obj.hasMeta
    /\ note.obj.Obj.namespace = "ns2"
    /\ Len(heap) = 2
    /\ Len(queue) = 2

\* C20: a call of track sends one request, whose query is made of the four
\* pairs host, event, cv_email and cv_project_namespace: the fixed host,
\* the lower-cased kind and action joined by an underscore, and the
\* namespace twice; no upper-case letter is left in the event; how the call
\* ends changes none of them.
C20_SinkParameters ==
    sink.state = "returned"
        => /\ Len(sink.requests) = 1
           /\ sink.requests[1].query =
                 {<<"host", "dev.openshift.redhat.com">>,
                  <<"event", ToLower(sink.objName) \o <<"_">> \o ToLower(sink.action)>>,
                  <<"cv_email", sink.namespace>>,
                  <<"cv_project_namespace", sink.namespace>>}
           /\ \A pair \in sink.requests[1].query :
                 pair[1] = "event"
                     => /\ Len(pair[2]) = Len(sink.objName) + 1 + Len(sink.action)
                        /\ \A i \in 1..Len(pair[2]) :
                              pair[2][i] \notin Range(UpperCase)

\* A call with an upper-case kind and action and the empty namespace has
\* returned an error.
C20_Witness ==
    /\ sink.state = "returned"
    /\ sink.objName = <<"S", "E", "R", "V", "I", "C", "E">>
    /\ sink.action = <<"D", "E", "L", "E", "T", "E">>
    /\ sink.namespace = ""
    /\ sink.err

\* C21: the watchers have called Add at most as often as notifications
\* were delivered, and every step that calls Add is the handling of one
\* notification and calls it once.
C21_NoResyncEvents ==
    /\ [](Len(heap) <= received)
    /\ [][heap' # heap => /\ received' = received + 1
                          /\ Len(heap') = Len(heap) + 1]_vars

\* More notifications were delivered than events enqueued, and events
\* were enqueued by each of the three handlers.
C21_Witness ==
    /\ Len(heap) = 3
    /\ received > Len(heap)
    /\ {heap[p].action : p \in Pointers} = ActionNames

\* The object type and the client resource that belong to each kind name.
KindOf ==
    [pod |-> [type |-> "Pod", resource |-> "Pods"],
     replication_controller |-> [type |-> "ReplicationController", resource |-> "ReplicationControllers"],
     pvclaim |-> [type |-> "PersistentVolumeClaim", resource |-> "PersistentVolumeClaims"],
     secret |-> [type |-> "Secret", resource |-> "Secrets"],
     service |-> [type |-> "Service", resource |-> "Services"],
     namespace |-> [type |-> "Namespace", resource |-> "Namespaces"],
     deployment |-> [type |-> "DeploymentConfig", resource |-> "DeploymentConfigs"],
     route |-> [type |-> "Route", resource |-> "Routes"],
     build |-> [type |-> "Build", resource |-> "Builds"],
     template |-> [type |-> "Template", resource |-> "Templates"]]

\* C22: the registry has the ten kind names as its keys, and every entry
\* pairs its name with the object type of that kind and with the List and
\* the Watch call on the resource of that kind; the kinds the controller
\* watches are keys of it in every state.
C22_RegistryWellFormed ==
    /\ DOMAIN watches = DOMAIN KindOf
    /\ Kinds \subseteq DOMAIN watches
    /\ DOMAIN wstate = Kinds
    /\ \A k \in DOMAIN watches :
          /\ watches[k].objType = KindOf[k].type
          /\ watches[k].listFunc.resource = KindOf[k].resource
          /\ watches[k].listFunc.op = "List"
          /\ watches[k].watchFunc.resource = KindOf[k].resource
          /\ watches[k].watchFunc.op = "Watch"

\* The items workers hold between a Get that returned them and the Done.
Held == {obj[w] : w \in {x \in Workers : pc[x] = "track"}}

\* C23: the in-flight items are exactly the items workers hold since their
\* Get, one per worker, so there are at most as many as workers; an item
\* becomes in-flight only by the Get of the worker that then holds it and
\* leaves only by the step of that worker that ends its iteration, which
\* takes it out whatever the outcome of the call; and that step is open to
\* every worker that holds an item.
C23_GetDonePairing ==
    /\ [](/\ processing = Held
          /\ Cardinality(processing) <= Cardinality(Workers)
          /\ \A w1, w2 \in Workers :
                (pc[w1] = "track" /\ pc[w2] = "track" /\ w1 # w2)
                    => obj[w1] # obj[w2]
          /\ \A w \in Workers : pc[w] = "track" => ENABLED WorkerTrack(w))
    /\ [][\A w \in Workers :
             /\ (pc[w] = "get" /\ pc'[w] = "track")
                   => /\ obj'[w] \notin processing
                      /\ processing' = processing \cup {obj'[w]}
             /\ (pc[w] = "track" /\ pc'[w] # "track")
                   => /\ processing' = processing \ {obj[w]}
                      /\ obj'[w] = Nil
             /\ (pc'[w] = pc[w] /\ pc[w] = "track")
                   => (obj'[w] = obj[w] /\ obj[w] \in processing')]_vars

\* Three events were returned by Get and are Done: the call of one ended
\* in an error that was logged, the calls of the other two returned none.
C23_Witness ==
    /\ Len(delivered) = 3
    /\ processing = {}
    /\ failed = 1
    /\ glog.track = 1
    /\ \A p \in Pointers : Len(sent[p]) = 1

\* C24: in the deployed configuration at most one outbound call is under
\* way in any state; a call is made for the event Get returned last, after
\* the calls for all events returned before it; and once started nothing
\* of the pipeline stops: the stop channel stays open, the queue is not
\* shut down, every watcher keeps running and the worker stays in its loop.
C24_DeployedSequential ==
    /\ [](Cardinality({w \in Workers : pc[w] = "track"}) <= 1)
    /\ [][\A p \in DOMAIN sent :
             sent'[p] # sent[p]
                 => /\ delivered # <<>>
                    /\ p = delivered[Len(delivered)]
                    /\ \A i \in 1..(Len(delivered) - 1) :
                          sent[delivered[i]] # <<>>]_vars
    /\ [](started => /\ ~stopCh
                      /\ ~shuttingDown
                      /\ \A k \in Kinds : wstate[k] = "running"
                      /\ pc["w1"] \in {"get", "track"}
                      /\ ~quit["w1"])

\* The step is a call of attemptToLoadRecycler for the config of plugin.
Attempts(plugin) ==
    /\ recycler.pc = plugin
    /\ recycler.flags[plugin].path # ""
    /\ recycler'.pc # plugin

\* C25: a call of attemptToLoadRecycler whose file does not load, or loads
\* as a pod that does not have exactly one volume, returns an error and
\* leaves the RecyclerPodTemplate of its config as it was; a call whose
\* file loads as a pod with exactly one volume returns no error and leaves
\* that pod as the RecyclerPodTemplate of its config.
C25_AttemptToLoadRecycler ==
    [][\A plugin \in {"hostPath", "nfs"} :
          Attempts(plugin) =>
              LET file == recycler.flags[plugin].file IN
              IF file.err \/ Len(file.pod.Volumes) # 1
              THEN /\ recycler'.err # "nil"
                   /\ recycler'.config[plugin].RecyclerPodTemplate =
                          recycler.config[plugin].RecyclerPodTemplate
              ELSE /\ recycler'.err = "nil"
                   /\ recycler'.config[plugin].RecyclerPodTemplate = file.pod]_vars

\* The hostPath template was loaded from its file, and the attempt for NFS
\* failed on a pod with two volumes and left the default pod in place.
C25_Witness ==
    /\ recycler.pc = "fatal"
    /\ recycler.flags.hostPath.path # ""
    /\ ~recycler.flags.hostPath.file.err
    /\ recycler.config.hostPath.RecyclerPodTemplate = recycler.flags.hostPath.file.pod
    /\ recycler.config.hostPath.RecyclerPodTemplate # defaultScrubPod
    /\ recycler.err = "expected exactly 1 volume"
    /\ recycler.flags.nfs.path # ""
    /\ ~recycler.flags.nfs.file.err
    /\ Len(recycler.flags.nfs.file.pod.Volumes) = 2
    /\ recycler.config.nfs.RecyclerPodTemplate = defaultScrubPod
====
